---- MODULE Spec2Model ----
(***************************************************************************)
(* The smartphone supply-chain planner: the constraint sets assembled by   *)
(* build_full_model (advanced_supply_chain.py) and build_model             *)
(* (smartphone_milp_model.py, daily and weekly), completed by the penalty  *)
(* loop of smartphone_run.py, and the assignments a solver can return for  *)
(* them.                                                                   *)
(*                                                                         *)
(* The state is a partial assignment of the decision variables.  The       *)
(* solver fixes the facility variables, then the variables of each period  *)
(* in time order, then each week's inventory flow, then the mode-change    *)
(* penalties; a step is enabled only for values that satisfy every         *)
(* constraint the builder adds over the variables fixed so far, so the     *)
(* reachable states are exactly the feasible (partial) assignments over    *)
(* the explored value sets.                                                *)
(*                                                                         *)
(* Dates are day numbers, day 0 = Monday 2018-01-01 (DATE0).  A week of    *)
(* WEEKS is a pandas Period of frequency "W-MON": period k ends on the     *)
(* Monday 7k and starts on the Tuesday 7k-6.                               *)
(*                                                                         *)
(* Three places of the source cannot run as written, and the model follows *)
(* the constraints their text states: week_monday(d).to_period("W-MON") is *)
(* applied to a datetime.date (read as the period that holds that Monday); *)
(* the penalty loop of smartphone_run.py iterates V["modeBlock"] and reads *)
(* V["modeChange"], keys build_model does not return (read as one binary   *)
(* modeChange and one penalty per (block, weekday, edge-pair), which no    *)
(* other constraint mentions); the cap_week lookup compares a week column  *)
(* with a Period or a date (read as the table dp.cap_rows of rows found).  *)
(***************************************************************************)
EXTENDS Integers, Sequences, FiniteSets, TLC

VARIABLES
    builder,    \* "full" (build_full_model), "daily" / "weekly" (build_model)
    dp,         \* the reference data of smartphone_data_prep (read-only)
    dom,        \* the candidate values the solver explores (read-only)
    pc,         \* "facility", "period", "flow", "penalty", "done"
    openF, openW,       \* sets of sites with OpenF / OpenW = 1
    tipF, tipW,         \* [site -> activation week index]
    actF, actW,         \* [week -> [site -> BOOLEAN]]
    ProdR, ProdO,       \* [period -> [<<f, s>> -> Nat]]
    ShipF2W,            \* [period -> [<<f, h, mode>> -> Nat]]   (containers)
    modeBlock,          \* full: [<<b, dow>> -> [<<f, h, mode>> -> BOOLEAN]]
    modeUsed,           \* build_model: [period -> [<<f, h, mode>> -> BOOLEAN]]
    ShipW2C,            \* full: [day -> [<<w, c, s>> -> Nat]]; else [t -> [<<w, c>> -> Nat]]
    Inv,                \* [week -> [<<h, s, a>> -> Nat]]
    Short,              \* full: [week -> [<<c, s>> -> Nat]]; else [week -> [<<h, s>> -> Nat]]
    Scrap,              \* [week -> [<<h, s>> -> Nat]]
    modeChange,         \* [<<b, dow, f, h>> -> BOOLEAN]
    pen                 \* [<<b, dow, f, h>> -> Nat]: 20 * pen, in twentieths of a USD

\* smartphone_run.py after the model is built, and smartphone_validation.py
VARIABLES
    rpc,        \* run.py: "optimise", "copy", "delete", "production", "f2w", "w2c",
                \* "commit", "closed", "raised" (RuntimeError), "killed"
    SolCount,   \* mdl.SolCount
    store,      \* the rows of BASE_DIR/plan_submission_template.db
    tmp,        \* the committed rows of the NamedTemporaryFile, <<>> before the copy
    txn,        \* the rows seen by cur inside the open sqlite3 transaction, <<>> if none
    sub,        \* the table the validator loaded, <<>> before it ran
    status      \* exit status of the validator, <<>> before it ran

vars == <<builder, dp, dom, pc, openF, openW, tipF, tipW, actF, actW, ProdR, ProdO,
          ShipF2W, modeBlock, modeUsed, ShipW2C, Inv, Short, Scrap, modeChange, pen,
          rpc, SolCount, store, tmp, txn, sub, status>>

(***************************************************************************)
(* Constants of smartphone_config_utils.py and literals of the builders.   *)
(***************************************************************************)
CONTAINER_CAP == 4000
BIG_M == 1000000000
MODE_BLOCK_WEEKS == 4
MAX_FACTORY == 5
MAX_WAREHOUSE == 20
SEED_INVENTORY == 2000
BORDER_FEE == 4000
TRUCK_USD_KM == 12
\* TRUCK_CO2_KM = 0.40 kg per km, in tenths
TRUCK_CO2_KM10 == 4
\* TON_PENALTY_USD = 200.0
TON_PENALTY_USD == 200
\* the divisor of the environmental fee: kg per ton
KG_PER_TON == 1000
MODES_FCWH == {"TRUCK", "SHIP", "AIR"}
None == "None"

Sum(f, S) ==
    LET RECURSIVE Acc(_)
        Acc(T) == IF T = {} THEN 0
                  ELSE LET x == CHOOSE y \in T : TRUE IN f[x] + Acc(T \ {x})
    IN Acc(S)

EmptyFn == [x \in {} |-> 0]

(***************************************************************************)
(* Time axis.                                                              *)
(***************************************************************************)
weekday(d) == d % 7
week_monday(d) == d - weekday(d)
\* Timestamp.to_period("W-MON"): the period (ending on a Monday) that holds date x
to_period(x) == (x + 6) \div 7
\* Period.start_time.date(): the Tuesday that opens period w
start_time(w) == 7 * w - 6

WEEKS == 0 .. (dp.nWeeks - 1)
DAYS == 0 .. (7 * dp.nWeeks - 1)
Daily == builder \in {"full", "daily"}
TSET == IF Daily THEN DAYS ELSE WEEKS
\* the week whose Active flag gates period t
ActWeek(t) == IF Daily THEN to_period(week_monday(t)) ELSE t
BlockOf(d) == to_period(week_monday(d)) \div MODE_BLOCK_WEEKS
BLOCKS == 0 .. (((dp.nWeeks + MODE_BLOCK_WEEKS - 1) \div MODE_BLOCK_WEEKS) - 1)

(***************************************************************************)
(* Master sets and the shipping network of smartphone_data_prep.           *)
(***************************************************************************)
FACTORIES == 1 .. dp.nFac
WAREHOUSES == 1 .. dp.nWh
SKUS == 1 .. dp.nSku
CITIES == dp.CITIES
life_weeks(s) == dp.life_weeks[s]
AGE_MAX == CHOOSE n \in {life_weeks(s) : s \in SKUS} :
               \A s \in SKUS : life_weeks(s) <= n

eu_zone_pair(iso1, iso2) == {iso1, iso2} \subseteq {"DEU", "FRA"}

\* faulty variant: TRUCK kept on every cross-border pair
ModePermitted_NoZone(isoF, isoH, mode) == ~(isoF = isoH /\ mode # "TRUCK")

ModePermitted(isoF, isoH, mode) ==
    /\ ~(isoF = isoH /\ mode # "TRUCK")
    /\ ~(isoF # isoH /\ mode = "TRUCK" /\ ~eu_zone_pair(isoF, isoH))

\* the loop that fills edges_FC_WH, over factories F and warehouses H
BuildEdgesFCWH(F, H, isoF, isoW) ==
    {e \in F \X H \X MODES_FCWH : ModePermitted(isoF[e[1]], isoW[e[2]], e[3])}

edges_FC_WH == dp.edges_FC_WH

\* the (f, h) pairs of the edge list
EdgePairs == {<<e[1], e[2]>> : e \in edges_FC_WH}

BORDER_FC_WH(f, h) ==
    IF dp.isoF[f] = dp.isoW[h] \/ eu_zone_pair(dp.isoF[f], dp.isoW[h])
    THEN 0 ELSE BORDER_FEE

COST_FC_WH(f, h, mode) == dp.dkm[<<f, h>>] * TRUCK_USD_KM

\* the loop that fills edges_WH_CT: a warehouse serves the cities of its country
BuildEdgesWHCT(H, C, isoW, isoC) == {e \in H \X C : isoW[e[1]] = isoC[e[2]]}

edges_WH_CT == dp.edges_WH_CT

\* dict.get on iso_city: None for a key that is no city
iso_city_get(c) == IF c \in CITIES THEN dp.iso_city[c] ELSE None

\* DEMAND_DICT.get((d, s, c), 0)
DemandGet(d, s, c) ==
    IF <<d, s, c>> \in DOMAIN dp.DEMAND THEN dp.DEMAND[<<d, s, c>>] ELSE 0

(***************************************************************************)
(* Value sets of the exploration.  Outside the probe days every            *)
(* operational variable is explored at 0 / FALSE only.                     *)
(***************************************************************************)
Probe(t) ==
    IF Daily THEN t \in dom.days
    ELSE \E d \in dom.days : to_period(week_monday(d)) = t
Vals(D, t) == IF Probe(t) THEN D ELSE {0}
Flags(t) == IF Probe(t) THEN BOOLEAN ELSE {FALSE}

\* number of periods / weeks already assigned
NextPeriod == Cardinality(DOMAIN ProdR)
NextWeek == Cardinality(DOMAIN Short)
LastWeek == dp.nWeeks - 1

(***************************************************************************)
(* 0. Facility constraints (both builders).                                *)
(***************************************************************************)
\* faulty variant: the comparison of the indicator constraint turned around
IndicatorLink_Reversed(act, tip, idx) == act => tip >= idx

\* addGenConstrIndicator(act[w, x], True, tip[x] <= idx)
IndicatorLink(act, tip, idx) == act => tip <= idx

FacActive(aF, tF) ==
    \A f \in FACTORIES : \A idx \in WEEKS : IndicatorLink(aF[idx][f], tF[f], idx)

WhActive(aW, tW) ==
    \A h \in WAREHOUSES : \A idx \in WEEKS : IndicatorLink(aW[idx][h], tW[h], idx)

\* lb = 0, ub = len(WEEKS) - 1
TipBounds(tip) == \A x \in DOMAIN tip : 0 <= tip[x] /\ tip[x] <= dp.nWeeks - 1

\* faulty variant: the factory cap off by one
MaxFactoryConstr_OffByOne(oF) == Cardinality(oF) <= MAX_FACTORY + 1

\* openF.sum() <= 5
MaxFactoryConstr(oF) == Cardinality(oF) <= MAX_FACTORY

\* openW.sum() <= 20
MaxWarehouseConstr(oW) == Cardinality(oW) <= MAX_WAREHOUSE

\* Inv[WEEKS[0], h, s, 0] == 2000 * openW[h];  Inv[WEEKS[0], h, s, a] == 0 for a >= 1
InitialInventory(oW) ==
    [k \in WAREHOUSES \X SKUS \X (0 .. AGE_MAX) |->
        IF k[3] = 0 /\ k[1] \in oW THEN SEED_INVENTORY ELSE 0]

\* the assignments of the facility variables that satisfy the facility constraints
FeasibleOpen ==
    {x \in dom.openF \X dom.openW : MaxFactoryConstr(x[1]) /\ MaxWarehouseConstr(x[2])}
FeasibleFacActive ==
    {x \in [FACTORIES -> dom.tip] \X [WEEKS -> [FACTORIES -> dom.act]] :
        TipBounds(x[1]) /\ FacActive(x[2], x[1])}
FeasibleWhActive ==
    {x \in [WAREHOUSES -> dom.tip] \X [WEEKS -> [WAREHOUSES -> dom.act]] :
        TipBounds(x[1]) /\ WhActive(x[2], x[1])}

SolveFacilities ==
    /\ pc = "facility"
    /\ \E o \in FeasibleOpen, xF \in FeasibleFacActive, xW \in FeasibleWhActive :
          /\ openF' = o[1]
          /\ openW' = o[2]
          /\ Inv' = (0 :> InitialInventory(o[2]))
          /\ tipF' = xF[1]
          /\ actF' = xF[2]
          /\ tipW' = xW[1]
          /\ actW' = xW[2]
    /\ pc' = "period"
    /\ UNCHANGED <<rpc, SolCount, store, tmp, txn, sub, status>>
    /\ UNCHANGED <<builder, dp, dom, ProdR, ProdO, ShipF2W, modeBlock, modeUsed,
                   ShipW2C, Short, Scrap, modeChange, pen>>

(***************************************************************************)
(* 1. Production constraints of period t.                                  *)
(***************************************************************************)
B(flag) == IF flag THEN 1 ELSE 0

\* cap_week row of (week, factory): 0 when the row is missing
CapRow(col, t, f) ==
    IF <<ActWeek(t), f>> \in dp.cap_rows THEN col[f] ELSE 0

\* capR / capO: the weekly figure, // 7 at day level, 0 on a machine-failure day
Capacity(col, t, f) ==
    IF Daily
    THEN IF <<f, t>> \in dp.FAIL_LOOKUP THEN 0 ELSE CapRow(col, t, f) \div 7
    ELSE CapRow(col, t, f)

\* faulty variant: the capacity row without the Active factor
CapConstr_NoAct(total, cap, act) == total <= cap

\* quicksum(Prod[t, f, s] for s in SKUS) <= cap * act
CapConstr(total, cap, act) == total <= cap * B(act)

ProdTotal(p, f) == Sum([s \in SKUS |-> p[<<f, s>>]], SKUS)
ProdHours(p, f) == Sum([s \in SKUS |-> p[<<f, s>>] * dp.labour_hours[s]], SKUS)

ProductionCapacity(t, pR, pO) ==
    \A f \in FACTORIES :
        /\ CapConstr(ProdTotal(pR, f), Capacity(dp.reg_capacity, t, f), actF[ActWeek(t)][f])
        /\ CapConstr(ProdTotal(pO, f), Capacity(dp.ot_capacity, t, f), actF[ActWeek(t)][f])

\* build_model only: reg_hours <= 8 * cap_reg_day / max(cap_reg_day, 1) * cap_reg_day
EightHour(t, pR) ==
    \A f \in FACTORIES :
        LET cap_reg == CapRow(dp.reg_capacity, t, f)
            cap_reg_day == IF Daily THEN cap_reg \div 7 ELSE cap_reg
        IN ProdHours(pR, f) <= 8 * cap_reg_day

\* the periods whose hours the weekly labour law of week w adds up
LawPeriods(w) ==
    CASE builder = "full"   -> {d \in DAYS : to_period(week_monday(d)) = w}
      [] builder = "daily"  -> {d \in DAYS : week_monday(d) = start_time(w)}
      [] builder = "weekly" -> {w}

\* hrs <= maxH * actF[w, f], over the periods fixed up to t
WeeklyLaw(t, pR, pO) ==
    \A w \in {v \in WEEKS : t \in LawPeriods(v)} : \A f \in FACTORIES :
        LET R == ProdR @@ (t :> pR)
            O == ProdO @@ (t :> pO)
            P == {d \in LawPeriods(w) : d <= t}
            hrs == Sum([d \in P |-> ProdHours(R[d], f) + ProdHours(O[d], f)], P)
        IN hrs <= dp.max_hours[f] * B(actF[w][f])

ProductionOK(t, pR, pO) ==
    /\ ProductionCapacity(t, pR, pO)
    /\ builder # "full" => EightHour(t, pR)
    /\ WeeklyLaw(t, pR, pO)

(***************************************************************************)
(* 2. Shipment constraints of period t.                                    *)
(***************************************************************************)
IndKeys == {<<e[1], e[2], mn>> : e \in EdgePairs, mn \in MODES_FCWH}

\* quicksum(indicator[.., (f, h), mn] for mn in MODES_FCWH) <= 1
SingleMode(ind) ==
    \A e \in EdgePairs :
        Cardinality({mn \in MODES_FCWH : ind[<<e[1], e[2], mn>>]}) <= 1

\* Ship <= BIG_M * indicator
BigMGate(qty, flag) == qty <= BIG_M * B(flag)

\* ShipF2W[t, (f, h, mn)] <= BIG_M * indicator[.., (f, h), mn]
ModeBinding(sh, ind) == \A e \in edges_FC_WH : BigMGate(sh[e], ind[e])

\* ShipF2W[t, (f, h, mn)] <= BIG_M * actF[week, f]  and  <= BIG_M * actW[week, h]
ShipSitesActive(t, sh) ==
    \A e \in edges_FC_WH :
        /\ BigMGate(sh[e], actF[ActWeek(t)][e[1]])
        /\ BigMGate(sh[e], actW[ActWeek(t)][e[2]])

\* the key of the mode indicator that binds period t:
\* build_full_model: modeBlock[b, dow, ...];  build_model: modeUsed[t, ...]
BlockKey(t) == <<BlockOf(t), weekday(t)>>

\* a block indicator is explored when a probe day falls under it
BlockFlags(t) ==
    IF \E d \in dom.days : BlockKey(d) = BlockKey(t) THEN BOOLEAN ELSE {FALSE}

W2CKeys ==
    IF builder = "full" THEN WAREHOUSES \X CITIES \X SKUS ELSE edges_WH_CT

\* build_full_model: quicksum(ShipW2C[d, w, c, s] for c, s) <= BIG_M * actW[wref, w]
\* build_model:      Ship_W2C[t, (w, c)] <= BIG_M * actW[wh_week, w]
W2CActive(t, wc) ==
    IF builder = "full"
    THEN \A w \in WAREHOUSES :
            LET K == {k \in W2CKeys : k[1] = w}
            IN BigMGate(Sum(wc, K), actW[ActWeek(t)][w])
    ELSE \A k \in W2CKeys : BigMGate(wc[k], actW[ActWeek(t)][k[1]])

\* the last period of a week: its inventory flow is fixed next
ClosesWeek(t) == IF Daily THEN weekday(t) = 6 ELSE TRUE

\* the indicators that may bind period t: the block's own once it is fixed
IndChoices(t) ==
    IF builder = "full"
    THEN IF BlockKey(t) \in DOMAIN modeBlock THEN {modeBlock[BlockKey(t)]}
         ELSE [IndKeys -> BlockFlags(t)]
    ELSE [IndKeys -> Flags(t)]

\* the values of period t that satisfy the constraints over the periods up to t
FeasibleProduction(t) ==
    {x \in [FACTORIES \X SKUS -> Vals(dom.prod, t)] \X [FACTORIES \X SKUS -> Vals(dom.prod, t)] :
        ProductionOK(t, x[1], x[2])}
FeasibleShipment(t) ==
    {x \in [edges_FC_WH -> Vals(dom.ship, t)] \X IndChoices(t) :
        ShipSitesActive(t, x[1]) /\ SingleMode(x[2]) /\ ModeBinding(x[1], x[2])}
FeasibleW2C(t) ==
    {wc \in [W2CKeys -> Vals(dom.w2c, t)] : W2CActive(t, wc)}

SolvePeriod ==
    /\ pc = "period"
    /\ NextPeriod \in TSET
    /\ LET t == NextPeriod IN
       \E p \in FeasibleProduction(t), x \in FeasibleShipment(t), wc \in FeasibleW2C(t) :
          /\ ProdR' = ProdR @@ (t :> p[1])
          /\ ProdO' = ProdO @@ (t :> p[2])
          /\ ShipF2W' = ShipF2W @@ (t :> x[1])
          /\ modeBlock' = IF builder = "full" THEN modeBlock @@ (BlockKey(t) :> x[2])
                           ELSE modeBlock
          /\ modeUsed' = IF builder = "full" THEN modeUsed ELSE modeUsed @@ (t :> x[2])
          /\ ShipW2C' = ShipW2C @@ (t :> wc)
          /\ pc' = IF ClosesWeek(t) THEN "flow" ELSE "period"
    /\ UNCHANGED <<rpc, SolCount, store, tmp, txn, sub, status>>
    /\ UNCHANGED <<builder, dp, dom, openF, openW, tipF, tipW, actF, actW,
                   Inv, Short, Scrap, modeChange, pen>>

(***************************************************************************)
(* 3. Inventory flow of week w.                                            *)
(***************************************************************************)
\* LT_TRUCK_TABLE lookup
truck_leadtime(km) ==
    IF km < 500 THEN 2 ELSE IF km < 1000 THEN 3 ELSE IF km < 2000 THEN 5 ELSE 8

\* lt for TRUCK, ceil(lt * leadtime_factor - 1e-9) otherwise (factor in tenths)
LT_FC_WH(f, h, mode) ==
    LET lt == truck_leadtime(dp.dkm[<<f, h>>])
    IN IF mode = "TRUCK" THEN lt
       ELSE (lt * dp.leadtime_factor10[mode] + 9) \div 10

\* build_full_model: week_days = [d for d in DAYS if week_monday(d).to_period("W-MON") == w]
week_days(w) == {d \in DAYS : to_period(week_monday(d)) = w}

EdgesInto(h) == {e \in edges_FC_WH : e[2] = h}
Served(h) == {c \in CITIES : <<h, c>> \in edges_WH_CT}

\* the (dispatch period, edge) terms each builder adds to the arrivals of
\* warehouse h in week w
ArrivalTerms(w, h) ==
    CASE builder = "full" -> week_days(w) \X EdgesInto(h)
      [] builder = "daily" ->
            LET D == {d \in DAYS : week_monday(d) = start_time(w)}
                K == {k \in D \X EdgesInto(h) :
                        LET src_day == k[1] - LT_FC_WH(k[2][1], k[2][2], k[2][3])
                        IN ~(src_day < dp.weather_min) /\ src_day \in DOMAIN ShipF2W}
            IN {<<k[1] - LT_FC_WH(k[2][1], k[2][2], k[2][3]), k[2]>> : k \in K}
      [] builder = "weekly" ->
            LET K == {e \in EdgesInto(h) : ~(LT_FC_WH(e[1], e[2], e[3]) \div 7 > w)}
            IN {<<w - LT_FC_WH(e[1], e[2], e[3]) \div 7, e>> : e \in K}

\* units arriving at warehouse h in week w, as each builder adds them up
Arrivals(w, h) ==
    LET K == ArrivalTerms(w, h)
    IN Sum([k \in K |-> ShipF2W[k[1]][k[2]] * CONTAINER_CAP], K)

\* build_full_model: quicksum(ShipW2C[d, h, c, s] for d in week_days for served c)
Dispatch(w, h, s) ==
    LET K == week_days(w) \X Served(h)
    IN Sum([k \in K |-> ShipW2C[k[1]][<<h, k[2], s>>]], K)

\* build_full_model: sum(DEMAND_DICT.get((d, s, c), 0) for d in week_days for served c)
Demand(w, h, s) ==
    LET K == week_days(w) \X Served(h)
    IN Sum([k \in K |-> DemandGet(k[1], s, k[2])], K)

\* build_model: the loop over daterange(w.start_time.date(), +6) with
\*   dem += DEMAND_DICT.get((d, s, c), 0) if (h, (c := iso_city.get(c))) in edges_WH_CT else 0
\* c enters as the value the enclosing scope holds and is overwritten on every day
RECURSIVE DemFold(_, _, _, _, _)
DemFold(d, last, h, s, c) ==
    IF d > last THEN 0
    ELSE LET c1 == iso_city_get(c)
         IN (IF <<h, c1>> \in edges_WH_CT THEN DemandGet(d, s, c1) ELSE 0)
            + DemFold(d + 1, last, h, s, c1)

\* c is first bound by the loop "for t, (w, c) in product(TSET, edges_WH_CT)"
Dem(w, h, s) == DemFold(start_time(w), start_time(w) + 6, h, s, dp.last_city)

Available(w, h, s) == Inv[w][<<h, s, 0>>] + Arrivals(w, h)

\* build_full_model: dispatch == demand - quicksum(Short[w, c, s] for served c)
DispatchRule(dispatch, demand, short) == dispatch = demand - short

\* build_full_model: dispatch <= available
DispatchAvail(dispatch, available) == dispatch <= available

\* build_model: dem - Short[w, h, s] <= Inv[w, h, s, 0] + arrivals
DemandSat(dem, short, available) == dem - short <= available

\* build_model: if dem > 0: Short[w, h, s] <= 0.05 * dem
FillRate(dem, short) == dem > 0 => 100 * short <= 5 * dem

ShortKeys == IF builder = "full" THEN CITIES \X SKUS ELSE WAREHOUSES \X SKUS

DemandService(w, sh) ==
    \A h \in WAREHOUSES : \A s \in SKUS :
        IF builder = "full"
        THEN /\ DispatchRule(Dispatch(w, h, s), Demand(w, h, s),
                             Sum([c \in Served(h) |-> sh[<<c, s>>]], Served(h)))
             /\ DispatchAvail(Dispatch(w, h, s), Available(w, h, s))
        ELSE /\ DemandSat(Dem(w, h, s), sh[<<h, s>>], Available(w, h, s))
             /\ FillRate(Dem(w, h, s), sh[<<h, s>>])

\* Inv[nxt, h, s, 0]: available - dispatch (build_full_model), arrivals (build_model)
NextAgeZero(w, h, s) ==
    IF builder = "full" THEN Available(w, h, s) - Dispatch(w, h, s)
    ELSE Arrivals(w, h)

\* faulty variant: the ageing loop started at bucket 1
ShiftAges_FromOne(s) == 1 .. (life_weeks(s) - 1)

\* for a in range(life): Inv[nxt, h, s, a + 1] == Inv[w, h, s, a]
ShiftAges(s) == 0 .. (life_weeks(s) - 1)

\* the ageing and scrap constraints are added only under "if idx + 1 < len(WEEKS)"
HasNext(w) == w + 1 < dp.nWeeks

\* Scrap[w, h, s] >= Inv[w, h, s, life]
ScrapRule(scrap, bucket) == scrap >= bucket

InvKeys == WAREHOUSES \X SKUS \X (0 .. AGE_MAX)
\* the buckets of next week that no constraint of week w mentions
FreeKeys == {k \in InvKeys : k[3] >= 1 /\ (k[3] - 1) \notin ShiftAges(k[2])}

NextInv(w, fr) ==
    [k \in InvKeys |->
        IF k[3] = 0 THEN NextAgeZero(w, k[1], k[2])
        ELSE IF (k[3] - 1) \in ShiftAges(k[2]) THEN Inv[w][<<k[1], k[2], k[3] - 1>>]
        ELSE fr[k]]

\* candidate Scrap values: the explored ones and, where the scrap constraint
\* is added, the bucket it names
ScrapVals(w, h, s) ==
    dom.scrap \cup (IF HasNext(w) THEN {Inv[w][<<h, s, life_weeks(s)>>]} ELSE {})

\* the functions on K that take a value of S[k] at every key k
RECURSIVE FnsOver(_, _)
FnsOver(K, S) ==
    IF K = {} THEN {EmptyFn}
    ELSE LET k == CHOOSE x \in K : TRUE
         IN {f @@ (k :> v) : f \in FnsOver(K \ {k}, S), v \in S[k]}

\* the values of week w that satisfy the constraints the builder adds for it
FeasibleShort(w) == {sh \in [ShortKeys -> dom.short] : DemandService(w, sh)}
FeasibleScrap(w) ==
    FnsOver(WAREHOUSES \X SKUS,
            [k \in WAREHOUSES \X SKUS |->
                {v \in ScrapVals(w, k[1], k[2]) :
                    HasNext(w) => ScrapRule(v, Inv[w][<<k[1], k[2], life_weeks(k[2])>>])}])
FeasibleNextInv(w) ==
    {nx \in {NextInv(w, fr) : fr \in [FreeKeys -> dom.free]} : \A k \in InvKeys : nx[k] >= 0}

SolveWeekFlow ==
    /\ pc = "flow"
    /\ LET w == NextWeek IN
       /\ \E sh \in FeasibleShort(w), sc \in FeasibleScrap(w) :
             /\ Short' = Short @@ (w :> sh)
             /\ Scrap' = Scrap @@ (w :> sc)
       /\ IF HasNext(w)
          THEN \E nx \in FeasibleNextInv(w) : Inv' = Inv @@ ((w + 1) :> nx)
          ELSE Inv' = Inv
       /\ pc' = IF w = LastWeek THEN "penalty" ELSE "period"
    /\ UNCHANGED <<rpc, SolCount, store, tmp, txn, sub, status>>
    /\ UNCHANGED <<builder, dp, dom, openF, openW, tipF, tipW, actF, actW, ProdR, ProdO,
                   ShipF2W, modeBlock, modeUsed, ShipW2C, modeChange, pen>>

(***************************************************************************)
(* 4. Mode-change penalties (smartphone_run.py).                           *)
(***************************************************************************)
PeriodBlock(t) == IF Daily THEN BlockOf(t) ELSE t \div MODE_BLOCK_WEEKS
PeriodDow(t) == IF Daily THEN weekday(t) ELSE 0

\* weather x3 and oil x2 surcharges of the period
Surcharge(t) ==
    (IF t \in dp.BAD_WEATHER_DATES THEN 3 ELSE 1)
    * (IF ActWeek(t) \in dp.HIGH_OIL_WEEKS THEN 2 ELSE 1)

\* prev_cost: the surcharged cost shipped on (f, h) in block b - 1 on weekday dow
PrevCost(b, dow, f, h) ==
    LET K == {k \in TSET \X edges_FC_WH :
                /\ k[2][1] = f /\ k[2][2] = h
                /\ PeriodBlock(k[1]) = b - 1 /\ PeriodDow(k[1]) = dow}
    IN Sum([k \in K |->
              (COST_FC_WH(f, h, k[2][3]) + BORDER_FC_WH(f, h)) * Surcharge(k[1])
                  * ShipF2W[k[1]][k[2]]], K)

PenKeys ==
    {<<b, dow, e[1], e[2]>> : b \in BLOCKS \ {0}, dow \in 0 .. 6, e \in EdgePairs}

\* faulty variant: the row pen <= 0.05 * prev_cost left out
PenaltyConstr_NoUpper(p20, prev_cost, mc) ==
    /\ p20 >= 0
    /\ BIG_M * (1 - B(mc)) >= -((p20 - prev_cost) \div 20)
    /\ BIG_M * B(mc) >= -((-p20) \div 20)

\* pen >= 0.05 * prev_cost - BIG_M * (1 - modeChange);  pen <= 0.05 * prev_cost;
\* pen <= BIG_M * modeChange;  lb = 0.0
\* pen is continuous: it is carried in twentieths, p20 = 20 * pen, and each row
\* is multiplied by 20; the whole number BIG_M * x is >= y / 20 iff it is
\* >= ceil(y / 20) = -((-y) \div 20)
PenaltyConstr(p20, prev_cost, mc) ==
    /\ p20 >= 0
    /\ BIG_M * (1 - B(mc)) >= -((p20 - prev_cost) \div 20)
    /\ p20 <= prev_cost
    /\ BIG_M * B(mc) >= -((-p20) \div 20)

\* the keys whose weekday holds a probe day; elsewhere modeChange = FALSE, pen = 0
ProbePenKeys == {k \in PenKeys : \E d \in dom.days : weekday(d) = k[2]}

\* the flags and penalties that satisfy the penalty constraints of every key
FeasiblePenalty ==
    LET prev == [k \in PenKeys |-> PrevCost(k[1], k[2], k[3], k[4])]
        cand == [k \in PenKeys |->
                    IF k \in ProbePenKeys THEN BOOLEAN \X (dom.pen \cup {prev[k]})
                    ELSE {<<FALSE, 0>>}]
        ok == [k \in PenKeys |->
                  {c \in cand[k] : PenaltyConstr(c[2], prev[k], c[1])}]
    IN {[mc |-> [k \in PenKeys |-> g[k][1]], pn |-> [k \in PenKeys |-> g[k][2]]] :
            g \in FnsOver(PenKeys, ok)}

SolveModeChange ==
    /\ pc = "penalty"
    /\ \E x \in FeasiblePenalty :
          /\ modeChange' = x.mc
          /\ pen' = x.pn
    /\ pc' = "done"
    /\ UNCHANGED <<rpc, SolCount, store, tmp, txn, sub, status>>
    /\ UNCHANGED <<builder, dp, dom, openF, openW, tipF, tipW, actF, actW, ProdR, ProdO,
                   ShipF2W, modeBlock, modeUsed, ShipW2C, Inv, Short, Scrap>>

(***************************************************************************)
(* 5. CO2 totals and the environmental fee (smartphone_run.py).            *)
(***************************************************************************)
\* gp.floor_ and gp.ceil_ of the quotient n / d, d > 0
floor_(n, d) == n \div d
ceil_(n, d) == -((-n) \div d)

\* faulty variant: the quotient rounded down
ceil_div_expr_Floor(expr, divisor) == floor_(expr, divisor)

\* q = expr / divisor; frac = q - floor_(q); ceil_(q + 0 * frac)
\* (quotients are carried as numerators over divisor)
ceil_div_expr(expr, divisor) ==
    LET frac == expr - divisor * floor_(expr, divisor)
    IN ceil_(expr + 0 * frac, divisor)

CO2_FC_WH(f, h, mode) == (dp.dkm[<<f, h>>] * TRUCK_CO2_KM10) \div 10
CO2_WH_CT(w, c) == (dp.dkm_wc[<<w, c>>] * TRUCK_CO2_KM10) \div 10

\* co2_prod += (ProdR[t, f, s] + ProdO[t, f, s]) * dp.carbon_f[f]
co2_prod ==
    LET K == (DOMAIN ProdR) \X FACTORIES \X SKUS
    IN Sum([k \in K |-> (ProdR[k[1]][<<k[2], k[3]>>] + ProdO[k[1]][<<k[2], k[3]>>])
                            * dp.carbon_f[k[2]]], K)

\* co2_tran += CO2_FC_WH * qty over ShipF2W, then CO2_WH_CT * qty over ShipW2C
\* (build_full_model: CO2_WH_CT * ceil_div_expr(qty, CONTAINER_CAP) on edges_WH_CT)
co2_tran ==
    LET KF == (DOMAIN ShipF2W) \X edges_FC_WH
        KW == (DOMAIN ShipW2C) \X W2CKeys
    IN Sum([k \in KF |-> CO2_FC_WH(k[2][1], k[2][2], k[2][3]) * ShipF2W[k[1]][k[2]]], KF)
       + Sum([k \in KW |->
                IF builder = "full"
                THEN IF <<k[2][1], k[2][2]>> \in edges_WH_CT
                     THEN CO2_WH_CT(k[2][1], k[2][2])
                              * ceil_div_expr(ShipW2C[k[1]][k[2]], CONTAINER_CAP)
                     ELSE 0
                ELSE CO2_WH_CT(k[2][1], k[2][2]) * ShipW2C[k[1]][k[2]]], KW)

\* env_fee = TON_PENALTY_USD * ceil_div_expr(co2_prod + co2_tran, 1000)
env_fee == TON_PENALTY_USD * ceil_div_expr(co2_prod + co2_tran, KG_PER_TON)

Next == SolveFacilities \/ SolvePeriod \/ SolveWeekFlow \/ SolveModeChange

(***************************************************************************)
(* Initial states: nothing assigned; the reference data of the instance.   *)
(***************************************************************************)
(***************************************************************************)
(* 6. smartphone_run.py: optimise, then dump the plan.                     *)
(***************************************************************************)
\* a nullable column: <<>> is NULL, <<v>> holds v
NULL == <<>>

\* site ids and city names, split as <<prefix, rest>>
SiteF(f) == <<"FC_", f>>
SiteW(h) == <<"WH_", h>>
CityName(c) == <<"", c>>

Row(date, factory, sku, production_qty, ot_qty, from_city, to_city, mode, ship_qty) ==
    [date |-> date, factory |-> factory, sku |-> sku,
     production_qty |-> production_qty, ot_qty |-> ot_qty,
     from_city |-> from_city, to_city |-> to_city, mode |-> mode, ship_qty |-> ship_qty]

\* .X of an integer variable: a float, carried in tenths
X10(v) == 10 * v
\* int(): truncation towards zero
int(x10) == IF x10 >= 0 THEN x10 \div 10 ELSE -((-x10) \div 10)

\* t.isoformat() of a day, t.start_time.date().isoformat() of a week
date_str(t) == IF Daily THEN t ELSE start_time(t)

\* faulty variant: the container count written as the quantity
ShipQty_Containers(v) == int(X10(v))

\* qty = int(X) * CONTAINER_CAP
ShipQty(v) == int(X10(v)) * CONTAINER_CAP

ProductionRows ==
    {Row(<<date_str(k[1])>>, <<SiteF(k[2])>>, <<k[3]>>,
         <<int(X10(ProdR[k[1]][<<k[2], k[3]>>]))>>,
         <<int(X10(ProdO[k[1]][<<k[2], k[3]>>]))>>, NULL, NULL, NULL, NULL)
        : k \in (DOMAIN ProdR) \X FACTORIES \X SKUS}

\* if qty == 0: continue
F2WRows ==
    {Row(<<date_str(k[1])>>, NULL, NULL, NULL, NULL, <<SiteF(k[2][1])>>,
         <<SiteW(k[2][2])>>, <<k[2][3]>>, <<ShipQty(ShipF2W[k[1]][k[2]])>>)
        : k \in {j \in (DOMAIN ShipF2W) \X edges_FC_WH :
                    ShipQty(ShipF2W[j[1]][j[2]]) # 0}}

W2CRows ==
    {Row(<<date_str(k[1])>>, NULL, NULL, NULL, NULL, <<SiteW(k[2][1])>>,
         <<CityName(k[2][2])>>, <<"TRUCK">>, <<ShipQty(ShipW2C[k[1]][k[2]])>>)
        : k \in {j \in (DOMAIN ShipW2C) \X W2CKeys :
                    ShipQty(ShipW2C[j[1]][j[2]]) # 0}}

\* faulty variant: the dump follows whatever the solver returned
AfterOptimise_Unchecked(solcount) == "copy"

\* if mdl.SolCount == 0: raise RuntimeError("Model infeasible!")
AfterOptimise(solcount) == IF solcount = 0 THEN "raised" ELSE "copy"

\* mdl.optimize() returns: with the assignment found, or with none (the search
\* ended before a feasible assignment was complete)
Optimise ==
    /\ rpc = "optimise"
    /\ SolCount' = IF pc = "done" THEN 1 ELSE 0
    /\ pc' = IF pc = "done" THEN "done" ELSE "stopped"
    /\ rpc' = AfterOptimise(SolCount')
    /\ UNCHANGED <<builder, dp, dom, openF, openW, tipF, tipW, actF, actW, ProdR, ProdO,
                   ShipF2W, modeBlock, modeUsed, ShipW2C, Inv, Short, Scrap,
                   modeChange, pen, store, tmp, txn, sub, status>>

solution == <<builder, dp, dom, pc, openF, openW, tipF, tipW, actF, actW, ProdR, ProdO,
              ShipF2W, modeBlock, modeUsed, ShipW2C, Inv, Short, Scrap, modeChange, pen>>

\* tmp = NamedTemporaryFile(delete=False).name; shutil.copy(TPL, tmp); connect(tmp)
CopyTemplate ==
    /\ rpc = "copy"
    /\ tmp' = <<store>>
    /\ rpc' = "delete"
    /\ UNCHANGED <<solution, SolCount, store, txn, sub, status>>

\* cur.execute("DELETE FROM plan_submission_template"): opens the transaction
DeleteAll ==
    /\ rpc = "delete"
    /\ txn' = <<{}>>
    /\ rpc' = "production"
    /\ UNCHANGED <<solution, SolCount, store, tmp, sub, status>>

InsertProduction ==
    /\ rpc = "production"
    /\ txn' = <<txn[1] \cup ProductionRows>>
    /\ rpc' = "f2w"
    /\ UNCHANGED <<solution, SolCount, store, tmp, sub, status>>

InsertF2W ==
    /\ rpc = "f2w"
    /\ txn' = <<txn[1] \cup F2WRows>>
    /\ rpc' = "w2c"
    /\ UNCHANGED <<solution, SolCount, store, tmp, sub, status>>

InsertW2C ==
    /\ rpc = "w2c"
    /\ txn' = <<txn[1] \cup W2CRows>>
    /\ rpc' = "commit"
    /\ UNCHANGED <<solution, SolCount, store, tmp, sub, status>>

\* con.commit(); con.close()
Commit ==
    /\ rpc = "commit"
    /\ tmp' = txn
    /\ txn' = <<>>
    /\ rpc' = "closed"
    /\ UNCHANGED <<solution, SolCount, store, sub, status>>

\* the process is stopped inside the transaction: sqlite3 rolls the
\* uncommitted DELETE and INSERTs back
Interrupt ==
    /\ rpc \in {"production", "f2w", "w2c", "commit"}
    /\ txn' = <<>>
    /\ rpc' = "killed"
    /\ UNCHANGED <<solution, SolCount, store, tmp, sub, status>>

(***************************************************************************)
(* 7. smartphone_validation.py.                                            *)
(***************************************************************************)
\* sub.isna().any().any()
isna(rows) == \E r \in rows : \E c \in DOMAIN r : r[c] = NULL

\* sub.dropna(subset=["ship_qty"])
ship_rows(rows) == {r \in rows : r.ship_qty # NULL}

\* ship_qty % CONTAINER_CAP != 0
bad(rows) == {r \in ship_rows(rows) : r.ship_qty[1] % CONTAINER_CAP # 0}

\* str.startswith
startswith(name, prefix) == name[1] = prefix

f2w_ship(rows) == {r \in ship_rows(rows) : startswith(r.from_city[1], "FC_")}

multimode(rows) ==
    {<<r.date, r.from_city, r.to_city>> : r \in
        {r \in f2w_ship(rows) : \E q \in f2w_ship(rows) :
            /\ q.date = r.date /\ q.from_city = r.from_city /\ q.to_city = r.to_city
            /\ q.mode # r.mode}}

multitrip(rows) ==
    {<<r.date, r.from_city, r.to_city, r.mode>> : r \in
        {r \in f2w_ship(rows) : \E q \in f2w_ship(rows) :
            /\ q # r
            /\ q.date = r.date /\ q.from_city = r.from_city /\ q.to_city = r.to_city
            /\ q.mode = r.mode}}

\* the keys of dp.iso_site and of dp.iso_city
InIsoSite(name) ==
    \/ name[1] = "FC_" /\ name[2] \in FACTORIES
    \/ name[1] = "WH_" /\ name[2] \in WAREHOUSES
iso_site(name) == IF name[1] = "FC_" THEN dp.isoF[name[2]] ELSE dp.isoW[name[2]]

\* one pass of the mode permission loop: TRUE if the row makes it exit
\* (sys.exit(1), or the KeyError of a name that is no site)
ModeCheckExits(r) ==
    IF ~(InIsoSite(r.from_city[1]) /\ InIsoSite(r.to_city[1])) THEN TRUE
    ELSE LET isoF == iso_site(r.from_city[1])
             isoW == iso_site(r.to_city[1])
         IN IF isoF = isoW THEN r.mode[1] # "TRUCK"
            ELSE r.mode[1] = "TRUCK" /\ ~eu_zone_pair(isoF, isoW)

wc_ship(rows) ==
    {r \in ship_rows(rows) : r.mode[1] = "TRUCK" /\ startswith(r.from_city[1], "WH_")}

\* one pass of the warehouse->city loop
W2CCheckExits(r) ==
    IF ~(/\ InIsoSite(r.from_city[1])
         /\ r.to_city[1][1] = "" /\ r.to_city[1][2] \in CITIES) THEN TRUE
    ELSE iso_site(r.from_city[1]) # dp.iso_city[r.to_city[1][2]]

\* the exit status of the script on the loaded table
ExitStatus(rows) ==
    IF isna(rows) THEN 1
    ELSE IF bad(rows) # {} THEN 1
    ELSE IF multimode(rows) # {} THEN 1
    ELSE IF multitrip(rows) # {} THEN 1
    ELSE IF \E r \in f2w_ship(rows) : ModeCheckExits(r) THEN 1
    ELSE IF \E r \in wc_ship(rows) : W2CCheckExits(r) THEN 1
    ELSE 0

\* the validator is run once the run script has ended; DB_PATH is the
\* template under BASE_DIR
Validate ==
    /\ rpc \in {"closed", "raised", "killed"}
    /\ status = <<>>
    /\ sub' = <<store>>
    /\ status' = <<ExitStatus(store)>>
    /\ UNCHANGED <<solution, rpc, SolCount, store, tmp, txn>>

NextRun ==
    \/ Next
    \/ Optimise \/ CopyTemplate \/ DeleteAll \/ InsertProduction \/ InsertF2W
    \/ InsertW2C \/ Commit \/ Interrupt
    \/ Validate

Unassigned ==
    /\ pc = "facility"
    /\ openF = {} /\ openW = {}
    /\ tipF = EmptyFn /\ tipW = EmptyFn /\ actF = EmptyFn /\ actW = EmptyFn
    /\ ProdR = EmptyFn /\ ProdO = EmptyFn /\ ShipF2W = EmptyFn
    /\ modeBlock = EmptyFn /\ modeUsed = EmptyFn /\ ShipW2C = EmptyFn
    /\ Inv = EmptyFn /\ Short = EmptyFn /\ Scrap = EmptyFn
    /\ modeChange = EmptyFn /\ pen = EmptyFn

\* the run script has built the model; no plan has been stored
NoRun ==
    /\ rpc = "optimise" /\ SolCount = 0 /\ store = {}
    /\ tmp = <<>> /\ txn = <<>> /\ sub = <<>> /\ status = <<>>

\* site['city'] of a site in country iso
CityOf(iso) == IF iso = "DEU" THEN "Berlin" ELSE IF iso = "FRA" THEN "Paris" ELSE "Seoul"

\* reference tables shared by the instances: nF factories (country isoF), nH
\* warehouses (country isoH), one city per country, nS SKUs with shelf lives life
Tables(nW, nF, nH, isoF, isoH, life, demand) ==
    [nWeeks |-> nW, nFac |-> nF, nWh |-> nH, nSku |-> Len(life),
     life_weeks |-> life,
     isoF |-> [f \in 1 .. nF |-> isoF], isoW |-> [h \in 1 .. nH |-> isoH],
     CITIES |-> {CityOf(isoF), CityOf(isoH)},
     iso_city |-> [c \in {CityOf(isoF), CityOf(isoH)} |->
                      IF c = CityOf(isoF) THEN isoF ELSE isoH],
     edges_FC_WH |-> BuildEdgesFCWH(1 .. nF, 1 .. nH, [f \in 1 .. nF |-> isoF],
                                    [h \in 1 .. nH |-> isoH]),
     edges_WH_CT |-> BuildEdgesWHCT(1 .. nH, {CityOf(isoF), CityOf(isoH)},
                                    [h \in 1 .. nH |-> isoH],
                                    [c \in {CityOf(isoF), CityOf(isoH)} |->
                                        IF c = CityOf(isoF) THEN isoF ELSE isoH]),
     last_city |-> CityOf(isoH),
     cap_rows |-> (0 .. (nW - 1)) \X (1 .. nF),
     reg_capacity |-> [f \in 1 .. nF |-> 7], ot_capacity |-> [f \in 1 .. nF |-> 7],
     FAIL_LOOKUP |-> {},
     labour_hours |-> [s \in 1 .. Len(life) |-> 1],
     max_hours |-> [f \in 1 .. nF |-> 40],
     DEMAND |-> demand,
     dkm |-> [e \in (1 .. nF) \X (1 .. nH) |-> 100],
     dkm_wc |-> [e \in (1 .. nH) \X {CityOf(isoF), CityOf(isoH)} |-> 50],
     carbon_f |-> [f \in 1 .. nF |-> 500],
     leadtime_factor10 |-> [mn \in MODES_FCWH |-> IF mn = "SHIP" THEN 40 ELSE 5],
     weather_min |-> 0,
     BAD_WEATHER_DATES |-> {}, HIGH_OIL_WEEKS |-> {}]

BUILDERS == {"full", "daily", "weekly"}

(***************************************************************************)
(* Instances.                                                              *)
(***************************************************************************)
\* more candidate sites than the caps allow; sites are opened in index order
NumFactoriesCaps == 6
NumWarehousesCaps == 21
NumWeeksCaps == 1

InitCaps ==
    /\ Unassigned /\ NoRun
    /\ builder \in BUILDERS
    /\ dp = Tables(NumWeeksCaps, NumFactoriesCaps, NumWarehousesCaps, "DEU", "DEU",
                   <<1>>, EmptyFn)
    /\ dom = [openF |-> {1 .. k : k \in 0 .. NumFactoriesCaps},
              openW |-> {1 .. k : k \in 0 .. NumWarehousesCaps},
              tip |-> {0}, act |-> {TRUE}, days |-> {},
              prod |-> {0}, ship |-> {0}, w2c |-> {0},
              short |-> {0}, scrap |-> {0}, free |-> {0}, pen |-> {0}]

SpecCaps == InitCaps /\ [][Next]_vars

\* one factory and one warehouse of the same country, activation times explored
NumWeeksGate == 2

InitGate ==
    /\ Unassigned /\ NoRun
    /\ builder \in BUILDERS
    /\ dp = Tables(NumWeeksGate, 1, 1, "DEU", "DEU", <<1>>,
                   (<<7, 1, "Berlin">> :> 1))
    /\ dom = [openF |-> {{1}}, openW |-> {{1}},
              tip |-> 0 .. (NumWeeksGate - 1), act |-> BOOLEAN, days |-> {7},
              prod |-> {0, 1}, ship |-> {0, 1}, w2c |-> {0, 1},
              short |-> {0, 1}, scrap |-> {0}, free |-> {0}, pen |-> {0}]

SpecGate == InitGate /\ [][Next]_vars

\* a cross-border edge inside the friction-less zone (three modes), two blocks
NumWeeksMode == 5

InitMode ==
    /\ Unassigned /\ NoRun
    /\ builder \in BUILDERS
    /\ dp = Tables(NumWeeksMode, 1, 1, "DEU", "FRA", <<1>>, EmptyFn)
    /\ dom = [openF |-> {{1}}, openW |-> {{1}},
              tip |-> {0}, act |-> {TRUE}, days |-> {0, 7, 28},
              prod |-> {0}, ship |-> {0, 1}, w2c |-> {0},
              short |-> {0}, scrap |-> {0}, free |-> {0},
              pen |-> {0, 1, 1199, 1201, 2399, 2401, 5000}]

SpecMode == InitMode /\ [][Next]_vars

\* two SKUs of shelf life 1 and 2 weeks, demand of 1000 units in the first week
NumWeeksInv == 2

InitInv ==
    /\ Unassigned /\ NoRun
    /\ builder \in BUILDERS
    /\ dp = Tables(NumWeeksInv, 1, 1, "DEU", "DEU", <<1, 2>>,
                   (<<0, 1, "Berlin">> :> 1000))
    /\ dom = [openF |-> {{1}}, openW |-> {{1}},
              tip |-> {0}, act |-> {TRUE}, days |-> {0},
              prod |-> {0}, ship |-> {0, 1}, w2c |-> {0, 1000},
              short |-> {0, 1000}, scrap |-> {0, 2000}, free |-> {0, 5}, pen |-> {0}]

SpecInv == InitInv /\ [][Next]_vars

\* one factory emitting 500 kg per unit, production explored up to 3 + 3 units
NumWeeksFee == 1

InitFee ==
    /\ Unassigned /\ NoRun
    /\ builder \in BUILDERS
    /\ dp = Tables(NumWeeksFee, 1, 1, "DEU", "DEU", <<1>>, EmptyFn)
    /\ dom = [openF |-> {{1}}, openW |-> {{1}},
              tip |-> {0}, act |-> {TRUE}, days |-> {0},
              prod |-> 0 .. 3, ship |-> {0, 1}, w2c |-> {0, 1},
              short |-> {0}, scrap |-> {0}, free |-> {0}, pen |-> {0}]

SpecFee == InitFee /\ [][Next]_vars

\* one factory and one warehouse placed in every pair of three countries
NumWeeksNet == 1
COUNTRIES == {"DEU", "FRA", "KOR"}

InitNet ==
    /\ Unassigned /\ NoRun
    /\ builder \in BUILDERS
    /\ \E isoF \in COUNTRIES, isoH \in COUNTRIES :
          dp = Tables(NumWeeksNet, 1, 1, isoF, isoH, <<1>>, EmptyFn)
    /\ dom = [openF |-> {{1}}, openW |-> {{1}},
              tip |-> {0}, act |-> {TRUE}, days |-> {0},
              prod |-> {0}, ship |-> {0, 1}, w2c |-> {0},
              short |-> {0}, scrap |-> {0}, free |-> {0}, pen |-> {0}]

SpecNet == InitNet /\ [][Next]_vars

\* the run script on one factory, one warehouse and one city, the template
\* holding no rows or the one row of an earlier plan
NumWeeksRun == 1

InitRun ==
    /\ Unassigned
    /\ builder \in {"daily", "weekly"}
    /\ dp = Tables(NumWeeksRun, 1, 1, "DEU", "DEU", <<1>>, EmptyFn)
    /\ dom = [openF |-> {{1}}, openW |-> {{1}},
              tip |-> {0}, act |-> {TRUE}, days |-> {0},
              prod |-> {0, 1}, ship |-> {0, 1, 2}, w2c |-> {0, 1},
              short |-> {0}, scrap |-> {0}, free |-> {0}, pen |-> {0}]
    /\ rpc = "optimise" /\ SolCount = 0 /\ store \in
          {{}, {Row(<<0>>, <<SiteF(1)>>, <<1>>, <<0>>, <<0>>, <<SiteW(1)>>,
                    <<CityName("Berlin")>>, <<"TRUCK">>, <<CONTAINER_CAP>>)}}
    /\ tmp = <<>> /\ txn = <<>> /\ sub = <<>> /\ status = <<>>

SpecRun == InitRun /\ [][NextRun]_vars

\* the validator on every table of at most MaxRows rows over a factory and a
\* warehouse placed in every pair of countries
MaxRows == 2

ShipRow(from_city, to_city, mode, qty) ==
    Row(<<0>>, <<SiteF(1)>>, <<1>>, <<0>>, <<0>>, <<from_city>>, <<to_city>>,
        <<mode>>, <<qty>>)

AuditRows ==
    {ShipRow(SiteF(1), SiteW(1), m, q) :
        m \in MODES_FCWH \cup {"RAIL"}, q \in {CONTAINER_CAP, 2 * CONTAINER_CAP}}
    \cup {ShipRow(SiteF(1), SiteW(1), "TRUCK", CONTAINER_CAP + 2000)}
    \cup {ShipRow(SiteW(1), CityName(c), m, CONTAINER_CAP) :
            c \in CITIES, m \in {"TRUCK", "AIR"}}
    \cup {Row(<<0>>, <<SiteF(1)>>, <<1>>, <<1>>, <<0>>, NULL, NULL, NULL, NULL)}

InitAudit ==
    /\ Unassigned
    /\ builder = "daily"
    /\ \E isoF \in COUNTRIES, isoH \in COUNTRIES :
          dp = Tables(1, 1, 1, isoF, isoH, <<1>>, EmptyFn)
    /\ dom = [openF |-> {{1}}, openW |-> {{1}},
              tip |-> {0}, act |-> {TRUE}, days |-> {},
              prod |-> {0}, ship |-> {0}, w2c |-> {0},
              short |-> {0}, scrap |-> {0}, free |-> {0}, pen |-> {0}]
    /\ rpc = "closed" /\ SolCount = 1
    /\ store \in {P \in SUBSET AuditRows : Cardinality(P) <= MaxRows}
    /\ tmp = <<>> /\ txn = <<>> /\ sub = <<>> /\ status = <<>>

SpecAudit == InitAudit /\ [][Validate]_vars

(***************************************************************************)
(* Observables the properties are stated over.                             *)
(***************************************************************************)
Solved == pc = "done"

\* the periods of week w
PeriodsOf(w) == IF Daily THEN {t \in TSET : ActWeek(t) = w} ELSE {w}

\* the periods of block b that fall on weekday dow
BlockPeriods(b, dow) ==
    {t \in DOMAIN ShipF2W : PeriodBlock(t) = b /\ PeriodDow(t) = dow}

\* the modes that carry a nonzero quantity on (f, h) in block b on weekday dow
ModesShipped(b, dow, f, h) ==
    {mn \in MODES_FCWH :
        /\ <<f, h, mn>> \in edges_FC_WH
        /\ \E t \in BlockPeriods(b, dow) : ShipF2W[t][<<f, h, mn>>] > 0}

\* the modes whose indicator is true for (f, h) in block b on weekday dow
ModesIndicated(b, dow, f, h) ==
    IF builder = "full"
    THEN {mn \in MODES_FCWH :
            <<b, dow>> \in DOMAIN modeBlock /\ modeBlock[<<b, dow>>][<<f, h, mn>>]}
    ELSE {mn \in MODES_FCWH :
            \E t \in BlockPeriods(b, dow) : modeUsed[t][<<f, h, mn>>]}

\* the demand table's total for week w: per city (build_full_model's Short is
\* per city), per warehouse over the cities it serves (build_model's Short)
CityDemand(w, c, s) ==
    LET D == week_days(w) IN Sum([d \in D |-> DemandGet(d, s, c)], D)
WarehouseDemand(w, h, s) ==
    LET K == (start_time(w) .. (start_time(w) + 6)) \X Served(h)
    IN Sum([k \in K |-> DemandGet(k[1], s, k[2])], K)

\* the demand, the shortfall and the dispatch of (week, warehouse, sku)
ServiceDemand(w, h, s) ==
    IF builder = "full" THEN Demand(w, h, s) ELSE WarehouseDemand(w, h, s)
ServiceShort(w, h, s) ==
    IF builder = "full" THEN Sum([c \in Served(h) |-> Short[w][<<c, s>>]], Served(h))
    ELSE Short[w][<<h, s>>]
ServiceDispatch(w, h, s) ==
    IF builder = "full" THEN Dispatch(w, h, s)
    ELSE LET K == PeriodsOf(w) \X Served(h)
         IN Sum([k \in K |-> ShipW2C[k[1]][<<h, k[2]>>]], K)

(***************************************************************************)
(* Properties.                                                             *)
(***************************************************************************)
\* C1: in every assignment satisfying the constraints of either builder, a site
\* whose Active flag is false in the week of period t has every ProdR / ProdO
\* of that factory, every ShipF2W from or to it, and every ShipW2C out of that
\* warehouse equal to 0 at t.
InactiveSiteIsIdle ==
    \A t \in DOMAIN ShipW2C :
        /\ \A f \in FACTORIES :
              ~actF[ActWeek(t)][f] =>
                  /\ \A s \in SKUS : ProdR[t][<<f, s>>] = 0 /\ ProdO[t][<<f, s>>] = 0
                  /\ \A e \in edges_FC_WH : e[1] = f => ShipF2W[t][e] = 0
        /\ \A h \in WAREHOUSES :
              ~actW[ActWeek(t)][h] =>
                  /\ \A e \in edges_FC_WH : e[2] = h => ShipF2W[t][e] = 0
                  /\ \A k \in W2CKeys : k[1] = h => ShipW2C[t][k] = 0

\* C1 case: a solved plan in which the factory is inactive, and idle, in a week
\* where the active warehouse ships
InactiveSiteIsIdleCase ==
    /\ Solved
    /\ \E t \in DOMAIN ShipW2C :
          /\ ~actF[ActWeek(t)][1] /\ actW[ActWeek(t)][1]
          /\ \E k \in W2CKeys : ShipW2C[t][k] > 0

\* C2: for every edge-pair, 4-week block and weekday, at most one mode indicator
\* is true and at most one mode ships a nonzero quantity over the periods of the
\* block on that weekday, in every builder.
OneModePerBlockWeekday ==
    \A b \in BLOCKS : \A dow \in 0 .. 6 : \A e \in EdgePairs :
        /\ Cardinality(ModesIndicated(b, dow, e[1], e[2])) <= 1
        /\ Cardinality(ModesShipped(b, dow, e[1], e[2])) <= 1

\* C3: for every (week, location, sku) whose weekly demand in the demand table
\* is positive, the shortfall is at most 5% of that demand, in either builder.
FillRateFloor ==
    \A w \in DOMAIN Short :
        IF builder = "full"
        THEN \A c \in CITIES : \A s \in SKUS :
                FillRate(CityDemand(w, c, s), Short[w][<<c, s>>])
        ELSE \A h \in WAREHOUSES : \A s \in SKUS :
                FillRate(WarehouseDemand(w, h, s), Short[w][<<h, s>>])

\* C4: at most 5 factories and at most 20 warehouses are open.
FacilityCaps == Cardinality(openF) <= 5 /\ Cardinality(openW) <= 20

\* C4 case: a solved plan that opens exactly 5 factories and 20 warehouses
FacilityCapsCase == Solved /\ Cardinality(openF) = 5 /\ Cardinality(openW) = 20

\* C5 as stated: the Active flag of a site in week w is true if and only if the
\* site's activation index is at most the index of w.
ActiveIffActivated ==
    /\ \A w \in DOMAIN actF : \A f \in FACTORIES : actF[w][f] <=> tipF[f] <= w
    /\ \A w \in DOMAIN actW : \A h \in WAREHOUSES : actW[w][h] <=> tipW[h] <= w

\* C5 as the constraints have it: a true Active flag of a site in week w implies
\* that the site's activation index is at most the index of w.
ActiveImpliesActivated ==
    /\ \A w \in DOMAIN actF : \A f \in FACTORIES : actF[w][f] => tipF[f] <= w
    /\ \A w \in DOMAIN actW : \A h \in WAREHOUSES : actW[w][h] => tipW[h] <= w

\* C5 case: a solved plan whose factory is activated in week 1, inactive in
\* week 0 and active in week 1
ActiveImpliesActivatedCase ==
    Solved /\ tipF[1] = 1 /\ ~actF[0][1] /\ actF[1][1]

\* C6: for every warehouse h, sku s, week w that is not the last and age bucket
\* a < life(s) - 1, Inv[w + 1, h, s, a + 1] = Inv[w, h, s, a].
AgeingShift ==
    \A w \in DOMAIN Inv :
        (w + 1) \in DOMAIN Inv =>
            \A h \in WAREHOUSES : \A s \in SKUS : \A a \in 0 .. (life_weeks(s) - 2) :
                Inv[w + 1][<<h, s, a + 1>>] = Inv[w][<<h, s, a>>]

\* C6 case: the seed stock of the two-week SKU sits in bucket 1 one week later
AgeingShiftCase ==
    /\ Solved
    /\ life_weeks(2) = 2
    /\ Inv[0][<<1, 2, 0>>] = SEED_INVENTORY
    /\ Inv[1][<<1, 2, 1>>] = SEED_INVENTORY

\* C7: for every warehouse h, sku s and every week w, the last included,
\* Scrap[w, h, s] >= Inv[w, h, s, life(s)].
ForcedScrap ==
    \A w \in DOMAIN Scrap : \A h \in WAREHOUSES : \A s \in SKUS :
        Scrap[w][<<h, s>>] >= Inv[w][<<h, s, life_weeks(s)>>]

\* C8: for every sku s with life(s) < AGE_MAX, every bucket a > life(s) holds 0
\* in every week and warehouse.
BeyondLifeEmpty ==
    \A w \in DOMAIN Inv : \A h \in WAREHOUSES : \A s \in SKUS :
        \A a \in (life_weeks(s) + 1) .. AGE_MAX : Inv[w][<<h, s, a>>] = 0

\* C9: in both builders, for every week, warehouse and sku: dispatch equals
\* demand minus shortfall, dispatch is at most the available stock (age-0 stock
\* plus arrivals), and next week's age-0 stock is available minus dispatch.
CanonicalDemandService ==
    \A w \in DOMAIN Short : \A h \in WAREHOUSES : \A s \in SKUS :
        /\ ServiceDispatch(w, h, s) = ServiceDemand(w, h, s) - ServiceShort(w, h, s)
        /\ ServiceDispatch(w, h, s) <= Available(w, h, s)
        /\ (w + 1) \in DOMAIN Inv =>
              Inv[w + 1][<<h, s, 0>>] = Available(w, h, s) - ServiceDispatch(w, h, s)

\* C10: when the mode shipped on (weekday, edge-pair) in block b differs from the
\* one shipped in block b - 1, modeChange[b, dow, (f, h)] is true, and the penalty
\* is positive when the previous block's cost is.
ModeChangeForced ==
    \A k \in DOMAIN modeChange :
        LET cur == ModesShipped(k[1], k[2], k[3], k[4])
            old == ModesShipped(k[1] - 1, k[2], k[3], k[4])
        IN (cur # {} /\ old # {} /\ cur # old) =>
              /\ modeChange[k]
              /\ PrevCost(k[1], k[2], k[3], k[4]) > 0 => pen[k] > 0

EdgePermissionRule ==
    \A f \in FACTORIES, h \in WAREHOUSES :
        LET a == dp.isoF[f]
            b == dp.isoW[h]
            inZone == a \in {"DEU", "FRA"} /\ b \in {"DEU", "FRA"}
            modes == {m \in MODES_FCWH : <<f, h, m>> \in edges_FC_WH}
        IN /\ a = b => modes = {"TRUCK"}
           /\ (a # b /\ ~inZone) => modes = {"SHIP", "AIR"}
           /\ (a # b /\ inZone) => modes = {"TRUCK", "SHIP", "AIR"}
           /\ BORDER_FC_WH(f, h) = IF a = b \/ inZone THEN 0 ELSE 4000
           /\ \A e \in edges_FC_WH : e[3] \in MODES_FCWH

\* C13 case: a plan shipping by SHIP on a cross-border pair outside the zone,
\* which has no TRUCK edge and pays the border fee
EdgePermissionRuleCase ==
    /\ Solved
    /\ \E f \in FACTORIES, h \in WAREHOUSES :
          /\ dp.isoF[f] = "KOR" /\ dp.isoW[h] = "DEU"
          /\ <<f, h, "TRUCK">> \notin edges_FC_WH
          /\ BORDER_FC_WH(f, h) = BORDER_FEE
          /\ \E t \in DOMAIN ShipF2W : ShipF2W[t][<<f, h, "SHIP">>] > 0

\* C12: every shipment row the writer puts in the output plan, factory->warehouse
\* or warehouse->city, has a ship_qty that is a positive exact multiple of 4000.
ShipQtyMultiple ==
    LET written == (IF txn # <<>> THEN txn[1] ELSE {})
                       \cup (IF rpc = "closed" THEN tmp[1] ELSE {})
    IN \A r \in written :
          r.ship_qty # NULL => r.ship_qty[1] > 0 /\ r.ship_qty[1] % 4000 = 0

\* C12 case: a committed plan with a two-container factory->warehouse row and a
\* one-container warehouse->city row
ShipQtyMultipleCase ==
    /\ rpc = "closed"
    /\ \E r \in tmp[1] : r.from_city = <<SiteF(1)>> /\ r.ship_qty = <<8000>>
    /\ \E r \in tmp[1] : r.from_city = <<SiteW(1)>> /\ r.ship_qty = <<4000>>

\* C14: the validator accepts a factory->warehouse row (f, h, m), m any mode
\* string, exactly when (f, h, m) is an edge of the network index; stated on
\* tables holding that one row with a whole number of containers.
ValidatorMirrorsEdges ==
    status # <<>> =>
        \A r \in sub[1] :
            (/\ sub[1] = {r}
             /\ r.from_city # NULL /\ r.from_city[1][1] = "FC_"
             /\ r.ship_qty[1] % CONTAINER_CAP = 0)
            => (status[1] = 0 <=>
                  <<r.from_city[1][2], r.to_city[1][2], r.mode[1]>> \in edges_FC_WH)

\* C15: the validator exits non-zero on every plan with a warehouse->city row
\* that crosses a border or whose mode is not TRUCK.
W2CRowsRejected ==
    status # <<>> =>
        ((\E r \in sub[1] :
            /\ r.from_city # NULL /\ r.from_city[1][1] = "WH_"
            /\ r.to_city[1][1] = ""
            /\ \/ r.mode[1] # "TRUCK"
               \/ dp.isoW[r.from_city[1][2]] # dp.iso_city[r.to_city[1][2]])
         => status[1] # 0)

\* C16: after an interruption between the DELETE and the commit the store the
\* writer works on holds the complete previous plan or the complete new plan,
\* and the table the validator loads after the commit is the committed plan.
PlanStoreReplace ==
    /\ rpc = "killed" =>
          tmp \in {<<store>>, <<ProductionRows \cup F2WRows \cup W2CRows>>}
    /\ (rpc = "closed" /\ status # <<>>) => sub = tmp

\* C17: when the solver returns no solution the run ends in the RuntimeError
\* with no temporary copy made and no transaction opened, and a copy or a
\* transaction exists only after a solve with at least one solution.
NoWriteWithoutSolution ==
    /\ (rpc # "optimise" /\ SolCount = 0) =>
          (rpc = "raised" /\ tmp = <<>> /\ txn = <<>>)
    /\ (tmp # <<>> \/ txn # <<>>) => SolCount >= 1

\* C17 case: the solver stopped without a solution and the run raised
NoWriteWithoutSolutionCase ==
    pc = "stopped" /\ SolCount = 0 /\ rpc = "raised" /\ tmp = <<>>

\* C18: for every (block b >= 1, weekday, edge-pair) with 0 <= 0.05 x prevCost
\* <= BIG_M, the four penalty rows force pen = 0.05 x prevCost when the mode-change
\* indicator is 1 and pen = 0 when it is 0 (pen held as 20 x pen).
PenaltyLinearization ==
    \A k \in DOMAIN pen :
        LET prev == PrevCost(k[1], k[2], k[3], k[4])
        IN (k[1] >= 1 /\ 0 <= prev /\ prev \div 20 <= BIG_M) =>
              /\ modeChange[k] => pen[k] = prev
              /\ ~modeChange[k] => pen[k] = 0

\* C18 case: a flagged key charged 5% of a previous-block cost of 2400
PenaltyLinearizationCase ==
    /\ Solved
    /\ \E k \in DOMAIN pen :
          modeChange[k] /\ PrevCost(k[1], k[2], k[3], k[4]) = 2400 /\ pen[k] = 2400

\* C19: a factory->warehouse shipment dispatched in period t on an edge of lead
\* time L days is counted in the arrivals of the destination warehouse in exactly
\* one week: the week containing day t + L in the daily models, the week of
\* index t + floor(L / 7) in the weekly model (stated for arrival weeks inside
\* the horizon).
ArrivalAlignment ==
    Solved =>
        \A t \in DOMAIN ShipF2W : \A e \in edges_FC_WH :
            LET L == LT_FC_WH(e[1], e[2], e[3])
                due == IF Daily THEN (t + L) \div 7 ELSE t + L \div 7
                counted == {w \in WEEKS : <<t, e>> \in ArrivalTerms(w, e[2])}
            IN (ShipF2W[t][e] > 0 /\ due \in WEEKS) => counted = {due}

\* C20: in every feasible assignment a factory or warehouse whose weekly Active
\* flag is true in some week has its Open flag true.
ActiveImpliesOpen ==
    /\ \A w \in DOMAIN actF : \A f \in FACTORIES : actF[w][f] => f \in openF
    /\ \A w \in DOMAIN actW : \A h \in WAREHOUSES : actW[w][h] => h \in openW

\* C21: for every factory and every period t, the units shipped out of the
\* factory up to t (ShipF2W containers x 4000 over its edges) do not exceed the
\* units it produced, regular plus overtime, up to t.
FactoryFlowBalance ==
    \A f \in FACTORIES : \A t \in DOMAIN ShipF2W :
        LET KS == {k \in (DOMAIN ShipF2W) \X edges_FC_WH : k[1] <= t /\ k[2][1] = f}
            KP == {k \in (DOMAIN ProdR) \X SKUS : k[1] <= t}
            shipped == Sum([k \in KS |-> ShipF2W[k[1]][k[2]] * CONTAINER_CAP], KS)
            produced == Sum([k \in KP |-> ProdR[k[1]][<<f, k[2]>>]
                                              + ProdO[k[1]][<<f, k[2]>>]], KP)
        IN shipped <= produced

\* C22: for every warehouse, SKU and week w that is not the last, the stock
\* summed over the age buckets 0 .. life(s) in week w + 1 is at most the total of
\* week w plus the arrivals of week w minus its dispatch.
StockConserved ==
    \A w \in DOMAIN Inv :
        (w + 1) \in DOMAIN Inv =>
            \A h \in WAREHOUSES : \A s \in SKUS :
                LET A == 0 .. life_weeks(s)
                    total(v) == Sum([a \in A |-> Inv[v][<<h, s, a>>]], A)
                IN total(w + 1) <= total(w) + Arrivals(w, h) - ServiceDispatch(w, h, s)

\* C23: every plan the writer commits from a feasible solution passes the
\* validator's null check, and the validator does not reject it.
WrittenPlanAccepted ==
    rpc = "closed" => ~isna(tmp[1]) /\ ExitStatus(tmp[1]) = 0

====
